---- MODULE Spec2Model ----
(***************************************************************************)
(* Carbon-Calculator: the route-distance resolver (RoutesDB) and the       *)
(* emission / savings / credit calculator (Calculator) of                  *)
(* js/routes-data.js, with the tables of js/config.js.                     *)
(*                                                                         *)
(* JavaScript numbers are IEEE-754 binary64 values.  They are modelled     *)
(* bit-exactly: a finite number is  s * m * 2^e  with a 53-bit mantissa m  *)
(* held as a little-endian sequence of 15-bit limbs, and every arithmetic  *)
(* operation rounds to nearest, ties to even, as the hardware does.        *)
(* JavaScript strings are sequences of UTF-16 code units.                  *)
(***************************************************************************)
EXTENDS Integers, Sequences, FiniteSets

(***************************************************************************)
(* Natural numbers of arbitrary size: little-endian limbs in base 2^15,    *)
(* no leading (highest) zero limb; zero is the empty sequence.             *)
(***************************************************************************)
LimbBase == 32768

LimbBits == 15

RECURSIVE BNTrim(_)
BNTrim(a) ==
  IF a = <<>> THEN <<>>
  ELSE IF a[Len(a)] = 0 THEN BNTrim(SubSeq(a, 1, Len(a) - 1))
  ELSE a

RECURSIVE BNFromInt(_)
BNFromInt(n) ==
  IF n = 0 THEN <<>> ELSE <<n % LimbBase>> \o BNFromInt(n \div LimbBase)

RECURSIVE BNToInt(_)
BNToInt(a) ==
  IF a = <<>> THEN 0 ELSE a[1] + LimbBase * BNToInt(Tail(a))

RECURSIVE BNAddC(_, _, _)
BNAddC(a, b, c) ==
  IF a = <<>> /\ b = <<>> THEN (IF c = 0 THEN <<>> ELSE <<c>>)
  ELSE LET x == IF a = <<>> THEN 0 ELSE a[1]
           y == IF b = <<>> THEN 0 ELSE b[1]
           t == x + y + c
       IN <<t % LimbBase>> \o
          BNAddC(IF a = <<>> THEN <<>> ELSE Tail(a),
                 IF b = <<>> THEN <<>> ELSE Tail(b),
                 t \div LimbBase)

BNAdd(a, b) == BNAddC(a, b, 0)

\* a - b - br for a >= b + br, not trimmed
RECURSIVE BNSubB(_, _, _)
BNSubB(a, b, br) ==
  IF a = <<>> THEN <<>>
  ELSE LET y == IF b = <<>> THEN 0 ELSE b[1]
           t == a[1] - y - br
       IN <<IF t < 0 THEN t + LimbBase ELSE t>> \o
          BNSubB(Tail(a), IF b = <<>> THEN <<>> ELSE Tail(b), IF t < 0 THEN 1 ELSE 0)

BNSub(a, b) == BNTrim(BNSubB(a, b, 0))

\* -1, 0, 1 as a < b, a = b, a > b (trimmed operands)
RECURSIVE BNCmpFrom(_, _, _)
BNCmpFrom(a, b, i) ==
  IF i = 0 THEN 0
  ELSE IF a[i] < b[i] THEN -1
  ELSE IF a[i] > b[i] THEN 1
  ELSE BNCmpFrom(a, b, i - 1)

BNCmp(a, b) ==
  IF Len(a) < Len(b) THEN -1
  ELSE IF Len(a) > Len(b) THEN 1
  ELSE BNCmpFrom(a, b, Len(a))

\* a * k + c for a limb-sized k and c
RECURSIVE BNMulSmallC(_, _, _)
BNMulSmallC(a, k, c) ==
  IF a = <<>> THEN (IF c = 0 THEN <<>> ELSE <<c>>)
  ELSE LET t == a[1] * k + c
       IN <<t % LimbBase>> \o BNMulSmallC(Tail(a), k, t \div LimbBase)

BNMulSmall(a, k) == IF k = 0 THEN <<>> ELSE BNMulSmallC(a, k, 0)

RECURSIVE BNMul(_, _)
BNMul(a, b) ==
  IF a = <<>> \/ b = <<>> THEN <<>>
  ELSE BNAdd(BNMulSmall(b, a[1]),
             LET r == BNMul(Tail(a), b) IN IF r = <<>> THEN <<>> ELSE <<0>> \o r)

\* floor(a / k) for 0 < k < 2^15, from the highest limb down; r is the running remainder
RECURSIVE BNDivSmallR(_, _, _)
BNDivSmallR(a, k, r) ==
  IF a = <<>> THEN <<>>
  ELSE LET t == r * LimbBase + a[Len(a)]
       IN BNDivSmallR(SubSeq(a, 1, Len(a) - 1), k, t % k) \o <<t \div k>>

BNDivSmall(a, k) == BNTrim(BNDivSmallR(a, k, 0))

RECURSIVE Zeros(_)
Zeros(n) == IF n = 0 THEN <<>> ELSE <<0>> \o Zeros(n - 1)

\* a * 2^n
BNShl(a, n) ==
  IF a = <<>> THEN <<>>
  ELSE Zeros(n \div LimbBits) \o BNMulSmall(a, 2 ^ (n % LimbBits))

\* floor(a / 2^n)
BNShr(a, n) ==
  IF n \div LimbBits >= Len(a) THEN <<>>
  ELSE BNDivSmall(SubSeq(a, n \div LimbBits + 1, Len(a)), 2 ^ (n % LimbBits))

RECURSIVE IntBitLen(_)
IntBitLen(n) == IF n = 0 THEN 0 ELSE 1 + IntBitLen(n \div 2)

BNBitLen(a) ==
  IF a = <<>> THEN 0 ELSE LimbBits * (Len(a) - 1) + IntBitLen(a[Len(a)])

BNIsOdd(a) == a # <<>> /\ a[1] % 2 = 1

(***************************************************************************)
(* JavaScript values.  A number is a record: k = "num" (finite,            *)
(* s * m * 2^e, m = <<>> for zero or 2^52 <= m < 2^53), "inf" (s gives     *)
(* the sign) or "nan"; null is k = "null".  Equal records are === values:  *)
(* the sign of zero, which === ignores, is not kept.  Magnitudes stay      *)
(* far inside the binary64 exponent range, so no operation overflows to    *)
(* Infinity or produces a subnormal.                                       *)
(***************************************************************************)
MantBits == 53

Null == [k |-> "null", s |-> 1, m |-> <<>>, e |-> 0]

NaN == [k |-> "nan", s |-> 1, m |-> <<>>, e |-> 0]

Zero == [k |-> "num", s |-> 1, m |-> <<>>, e |-> 0]

Inf(sign) == [k |-> "inf", s |-> sign, m |-> <<>>, e |-> 0]

IsZero(x) == x.k = "num" /\ x.m = <<>>

\* x < 0 and x > 0 of JavaScript (false for NaN)
IsNegative(x) == x.k \in {"num", "inf"} /\ x.s = -1 /\ ~IsZero(x)

IsPositive(x) == x.k \in {"num", "inf"} /\ x.s = 1 /\ ~IsZero(x)

IsFiniteNum(x) == x.k = "num"

Finite(sign, mant, exp) == [k |-> "num", s |-> sign, m |-> mant, e |-> exp]

MinInt(i, j) == IF i < j THEN i ELSE j

\* round to nearest, ties to even: c compares the bits shifted out with one half
RoundsUp(c, sticky, q) == c = 1 \/ (c = 0 /\ (sticky \/ BNIsOdd(q)))

\* a rounded mantissa q that has grown to 54 bits is 2^53: renormalise
PackCarry(sign, q, E) ==
  IF BNBitLen(q) > MantBits THEN Finite(sign, BNShr(q, 1), E + 1) ELSE Finite(sign, q, E)

\* q = floor(M / 2^sh) are the 53 bits kept
PackQuot(sign, M, E, sticky, sh, q) ==
  PackCarry(sign,
            IF RoundsUp(BNCmp(BNSub(M, BNShl(q, sh)), BNShl(<<1>>, sh - 1)), sticky, q)
            THEN BNAdd(q, <<1>>) ELSE q,
            E + sh)

\* nb is the bit length of M
PackBits(sign, M, E, sticky, nb) ==
  IF nb <= MantBits
  THEN Finite(sign, BNShl(M, MantBits - nb), E - (MantBits - nb))
  ELSE PackQuot(sign, M, E, sticky, nb - MantBits, BNShr(M, nb - MantBits))

\* The binary64 nearest to sign * M * 2^E (ties to even); sticky says that the exact
\* value lies strictly above M * 2^E by less than one unit of M (M then has > 54 bits).
Pack(sign, M, E, sticky) ==
  IF M = <<>> THEN Zero ELSE PackBits(sign, M, E, sticky, BNBitLen(M))

\* an integer of the model as a number
FromInt(n) ==
  Pack(IF n < 0 THEN -1 ELSE 1, BNFromInt(IF n < 0 THEN -n ELSE n), 0, FALSE)

\* -x
FNeg(x) == IF x.k \in {"num", "inf"} /\ ~IsZero(x) THEN [x EXCEPT !.s = -x.s] ELSE x

\* a * b
FMul(a, b) ==
  IF a.k = "nan" \/ b.k = "nan" THEN NaN
  ELSE IF a.k = "inf" \/ b.k = "inf"
       THEN (IF IsZero(a) \/ IsZero(b) THEN NaN ELSE Inf(a.s * b.s))
  ELSE IF IsZero(a) \/ IsZero(b) THEN Zero
  ELSE Pack(a.s * b.s, BNMul(a.m, b.m), a.e + b.e, FALSE)

\* sa * Ma * 2^E + sb * Mb * 2^E for sa # sb; c compares Ma with Mb
SubMagnitudes(c, sa, Ma, sb, Mb, E) ==
  IF c = 0 THEN Zero
  ELSE Pack(IF c = 1 THEN sa ELSE sb,
            IF c = 1 THEN BNSub(Ma, Mb) ELSE BNSub(Mb, Ma), E, FALSE)

AddAligned(sa, Ma, sb, Mb, E) ==
  IF sa = sb THEN Pack(sa, BNAdd(Ma, Mb), E, FALSE)
  ELSE SubMagnitudes(BNCmp(Ma, Mb), sa, Ma, sb, Mb, E)

\* a + b
FAdd(a, b) ==
  IF a.k = "nan" \/ b.k = "nan" THEN NaN
  ELSE IF a.k = "inf" /\ b.k = "inf" THEN (IF a.s = b.s THEN a ELSE NaN)
  ELSE IF a.k = "inf" THEN a
  ELSE IF b.k = "inf" THEN b
  ELSE IF IsZero(a) THEN b
  ELSE IF IsZero(b) THEN a
  ELSE AddAligned(a.s, BNShl(a.m, a.e - MinInt(a.e, b.e)),
                  b.s, BNShl(b.m, b.e - MinInt(a.e, b.e)), MinInt(a.e, b.e))

\* a - b
FSub(a, b) == FAdd(a, FNeg(b))

\* the largest q <= qhat with q * D <= R
RECURSIVE FixDigit(_, _, _)
FixDigit(qhat, D, R) ==
  IF BNCmp(BNMulSmall(D, qhat), R) > 0 THEN FixDigit(qhat - 1, D, R) ELSE qhat

\* the next quotient digit estimated from the two highest limbs of R1 = R * 2^15
EstimateDigit(R1, D) ==
  MinInt(LimbBase - 1,
         ((IF Len(R1) > Len(D) THEN R1[Len(D) + 1] ELSE 0) * LimbBase
            + (IF Len(R1) >= Len(D) THEN R1[Len(D)] ELSE 0)) \div D[Len(D)])

PrependDigit(q, rest) == <<rest[1] \o <<q>>, rest[2]>>

\* n base-2^15 digits of the quotient R / D behind the point, for R < D and D with its
\* highest limb >= 2^14 (schoolbook long division): <<digits, lowest first; remainder>>
RECURSIVE DivDigits(_, _, _)
DivDigit(R1, D, n, q) == PrependDigit(q, DivDigits(BNSub(R1, BNMulSmall(D, q)), D, n - 1))

DivStep(R1, D, n) == DivDigit(R1, D, n, FixDigit(EstimateDigit(R1, D), D, R1))

DivDigits(R, D, n) ==
  IF n = 0 THEN <<<<>>, R>>
  ELSE DivStep(IF R = <<>> THEN <<>> ELSE <<0>> \o R, D, n)

\* digits of the quotient computed behind the binary point: 60 bits
QuotDigits == 4

\* ge is the integer bit of the quotient, qr its digits behind the point and the remainder
DivPack(sign, E, ge, qr) ==
  Pack(sign, BNTrim(qr[1] \o <<IF ge THEN 1 ELSE 0>>), E, qr[2] # <<>>)

DivGE(sign, N, D, E, ge) ==
  DivPack(sign, E, ge, DivDigits(IF ge THEN BNSub(N, D) ELSE N, D, QuotDigits))

\* N / D for 53-bit N and D shifted to fill D's highest limb
DivMant(sign, N, D, E) == DivGE(sign, N, D, E, BNCmp(N, D) >= 0)

DivNorm(a, b, norm) ==
  DivMant(a.s * b.s, BNShl(a.m, norm), BNShl(b.m, norm), a.e - b.e - LimbBits * QuotDigits)

\* a / b
FDiv(a, b) ==
  IF a.k = "nan" \/ b.k = "nan" THEN NaN
  ELSE IF a.k = "inf" THEN (IF b.k = "inf" THEN NaN ELSE Inf(a.s * b.s))
  ELSE IF b.k = "inf" THEN Zero
  ELSE IF IsZero(b) THEN (IF IsZero(a) THEN NaN ELSE Inf(a.s * b.s))
  ELSE IF IsZero(a) THEN Zero
  ELSE DivNorm(a, b, LimbBits * Len(b.m) - BNBitLen(b.m))

\* I is the integer part of |x|; c compares the fraction of |x| with one half
RoundPick(sign, I, c) ==
  Pack(sign, IF (IF sign = 1 THEN c >= 0 ELSE c = 1) THEN BNAdd(I, <<1>>) ELSE I, 0, FALSE)

RoundFrac(x, I) ==
  RoundPick(x.s, I, BNCmp(BNSub(x.m, BNShl(I, -x.e)), BNShl(<<1>>, -x.e - 1)))

\* Math.round: the integer nearest to x, ties toward +Infinity
MathRound(x) ==
  IF x.k # "num" \/ IsZero(x) \/ x.e >= 0 THEN x
  ELSE IF -x.e > MantBits THEN Zero
  ELSE RoundFrac(x, BNShr(x.m, -x.e))

\* Number.EPSILON = 2^-52
EPSILON == [k |-> "num", s |-> 1, m |-> BNShl(<<1>>, MantBits - 1), e |-> -104]

\* The number a decimal literal n / 10^d denotes (n an integer, 0 <= d <= 9)
Dec(n, d) == IF d = 0 THEN FromInt(n) ELSE FDiv(FromInt(n), FromInt(10 ^ d))

(***************************************************************************)
(* Number literals: a decimal n / 10^d, NaN, Infinity, -Infinity, and the  *)
(* number each denotes.                                                    *)
(***************************************************************************)
DecLit(n, d) == [t |-> "dec", n |-> n, d |-> d]

NaNLit == [t |-> "nan", n |-> 0, d |-> 0]

InfLit == [t |-> "inf", n |-> 0, d |-> 0]

NegInfLit == [t |-> "ninf", n |-> 0, d |-> 0]

Num(lit) ==
  IF lit.t = "dec" THEN Dec(lit.n, lit.d)
  ELSE IF lit.t = "nan" THEN NaN
  ELSE IF lit.t = "inf" THEN Inf(1)
  ELSE Inf(-1)

(***************************************************************************)
(* js/config.js: the static tables.                                        *)
(***************************************************************************)
\* Object.keys(CONFIG.EMISSION_FACTORS): own keys in insertion order
ModeKeys == <<"bicycle", "car", "bus", "boat">>

EMISSION_FACTORS ==
  [bicycle |-> DecLit(0, 0), car |-> DecLit(12, 2), bus |-> DecLit(89, 3),
   boat |-> DecLit(96, 2)]

KG_PER_CREDIT == 1000

PRICE_MIN_BRL == 50

PRICE_MAX_BRL == 150

\* EMISSION_FACTORS is an object literal: a key it does not own is looked up in
\* Object.prototype, whose properties are functions (and __proto__, an object).
ObjectPrototypeKeys ==
  {"constructor", "hasOwnProperty", "isPrototypeOf", "propertyIsEnumerable",
   "toLocaleString", "toString", "valueOf", "__proto__",
   "__defineGetter__", "__defineSetter__", "__lookupGetter__", "__lookupSetter__"}

Undefined == [k |-> "undefined", s |-> 1, m |-> <<>>, e |-> 0]

\* Number(CONFIG.EMISSION_FACTORS[transportMode]), or Undefined when the lookup yields
\* undefined; Number(f) is NaN for a function or a plain object f.
FactorOf(transportMode) ==
  IF transportMode \in DOMAIN EMISSION_FACTORS THEN Num(EMISSION_FACTORS[transportMode])
  ELSE IF transportMode \in ObjectPrototypeKeys THEN NaN
  ELSE Undefined

(***************************************************************************)
(* js/routes-data.js: Calculator.                                          *)
(***************************************************************************)
\* Math.round((Number(value) + Number.EPSILON) * factor) / factor, factor = 10^decimals
_round(value, decimals) ==
  LET factor == FromInt(10 ^ decimals)
  IN FDiv(MathRound(FMul(FAdd(value, EPSILON), factor)), factor)

calculateEmission(distance, transportMode) ==
  IF distance.k = "nan" \/ IsNegative(distance) THEN Null
  ELSE LET factor == FactorOf(transportMode)
       IN IF factor = Undefined THEN Null
          ELSE _round(FMul(distance, factor), 2)

\* a comparator that orders by emission, highest first
CompareDescending(a, b) ==
  IF a.emission = Null /\ b.emission = Null THEN 0
  ELSE IF a.emission = Null THEN 1
  ELSE IF b.emission = Null THEN -1
  ELSE LET d == FSub(b.emission, a.emission)
       IN IF IsNegative(d) THEN -1 ELSE IF IsPositive(d) THEN 1 ELSE 0

\* the comparator of results.sort: negative, zero or positive; a NaN difference
\* counts as 0 (Array.prototype.sort)
CompareEntries(a, b) ==
  IF a.emission = Null /\ b.emission = Null THEN 0
  ELSE IF a.emission = Null THEN 1
  ELSE IF b.emission = Null THEN -1
  ELSE LET d == FSub(a.emission, b.emission)
       IN IF IsNegative(d) THEN -1 ELSE IF IsPositive(d) THEN 1 ELSE 0

\* x inserted into the sorted sequence srt behind every entry that does not compare
\* greater than it
RECURSIVE InsertEntry(_, _)
InsertEntry(srt, x) ==
  IF srt = <<>> THEN <<x>>
  ELSE IF CompareEntries(srt[Len(srt)], x) > 0
       THEN InsertEntry(SubSeq(srt, 1, Len(srt) - 1), x) \o <<srt[Len(srt)]>>
       ELSE srt \o <<x>>

\* Array.prototype.sort with the comparator: a stable sort
RECURSIVE SortEntries(_)
SortEntries(entries) ==
  IF entries = <<>> THEN <<>>
  ELSE InsertEntry(SortEntries(SubSeq(entries, 1, Len(entries) - 1)), entries[Len(entries)])

calculateAllModes(distance) ==
  LET carEmission == IF \E i \in DOMAIN ModeKeys : ModeKeys[i] = "car"
                     THEN calculateEmission(distance, "car") ELSE Null
      entry(mode) ==
        LET emission == calculateEmission(distance, mode)
        IN [mode |-> mode,
            emission |-> emission,
            percentageVsCar |->
              IF emission # Null /\ carEmission # Null /\ IsPositive(carEmission)
              THEN _round(FMul(FDiv(emission, carEmission), FromInt(100)), 2)
              ELSE Null]
  IN SortEntries([i \in DOMAIN ModeKeys |-> entry(ModeKeys[i])])

\* the savings with the percentage taken of the emission instead of the baseline
calculateSavingsOfEmission(e, b) ==
  IF e.k = "nan" \/ b.k = "nan" THEN Null
  ELSE LET savedKg == _round(FSub(b, e), 2)
       IN [savedKg |-> savedKg,
           percentage |-> IF IsPositive(e)
                          THEN _round(FMul(FDiv(savedKg, e), FromInt(100)), 2)
                          ELSE Null]

calculateSavings(e, b) ==
  IF e.k = "nan" \/ b.k = "nan" THEN Null
  ELSE LET savedKg == _round(FSub(b, e), 2)
       IN [savedKg |-> savedKg,
           percentage |-> IF IsPositive(b)
                          THEN _round(FMul(FDiv(savedKg, b), FromInt(100)), 2)
                          ELSE Null]

calculateCarbonCredits(kg) ==
  IF kg.k = "nan" \/ IsNegative(kg) THEN Null
  ELSE _round(FDiv(kg, FromInt(KG_PER_CREDIT)), 4)

\* the price estimate whose average is taken from the rounded min and max
estimateCreditPriceRoundFirst(c) ==
  IF c.k = "nan" \/ IsNegative(c) THEN Null
  ELSE LET min == _round(FMul(c, FromInt(PRICE_MIN_BRL)), 2)
           max == _round(FMul(c, FromInt(PRICE_MAX_BRL)), 2)
       IN [min |-> min,
           max |-> max,
           average |-> _round(FDiv(FAdd(min, max), FromInt(2)), 2)]

estimateCreditPrice(c) ==
  IF c.k = "nan" \/ IsNegative(c) THEN Null
  ELSE LET min == FMul(c, FromInt(PRICE_MIN_BRL))
           max == FMul(c, FromInt(PRICE_MAX_BRL))
           avg == FDiv(FAdd(min, max), FromInt(2))
       IN [min |-> _round(min, 2),
           max |-> _round(max, 2),
           average |-> _round(avg, 2)]

(***************************************************************************)
(* js/routes-data.js: RoutesDB.                                            *)
(***************************************************************************)
\* var routes = [...]: origin, destination as UTF-16 code units, distanceKm in km
RouteTable ==
  <<
    \* Sao Paulo, SP -> Rio de Janeiro, RJ
    [origin |-> <<83, 227, 111, 32, 80, 97, 117, 108, 111, 44, 32, 83, 80>>,
     destination |-> <<82, 105, 111, 32, 100, 101, 32, 74, 97, 110, 101, 105, 114, 111, 44, 32, 82, 74>>,
     distanceKm |-> 430],
    \* Sao Paulo, SP -> Brasilia, DF
    [origin |-> <<83, 227, 111, 32, 80, 97, 117, 108, 111, 44, 32, 83, 80>>,
     destination |-> <<66, 114, 97, 115, 237, 108, 105, 97, 44, 32, 68, 70>>,
     distanceKm |-> 1015],
    \* Rio de Janeiro, RJ -> Brasilia, DF
    [origin |-> <<82, 105, 111, 32, 100, 101, 32, 74, 97, 110, 101, 105, 114, 111, 44, 32, 82, 74>>,
     destination |-> <<66, 114, 97, 115, 237, 108, 105, 97, 44, 32, 68, 70>>,
     distanceKm |-> 1148],
    \* Sao Paulo, SP -> Campinas, SP
    [origin |-> <<83, 227, 111, 32, 80, 97, 117, 108, 111, 44, 32, 83, 80>>,
     destination |-> <<67, 97, 109, 112, 105, 110, 97, 115, 44, 32, 83, 80>>,
     distanceKm |-> 95],
    \* Rio de Janeiro, RJ -> Niteroi, RJ
    [origin |-> <<82, 105, 111, 32, 100, 101, 32, 74, 97, 110, 101, 105, 114, 111, 44, 32, 82, 74>>,
     destination |-> <<78, 105, 116, 101, 114, 243, 105, 44, 32, 82, 74>>,
     distanceKm |-> 13],
    \* Belo Horizonte, MG -> Ouro Preto, MG
    [origin |-> <<66, 101, 108, 111, 32, 72, 111, 114, 105, 122, 111, 110, 116, 101, 44, 32, 77, 71>>,
     destination |-> <<79, 117, 114, 111, 32, 80, 114, 101, 116, 111, 44, 32, 77, 71>>,
     distanceKm |-> 100],
    \* Sao Paulo, SP -> Belo Horizonte, MG
    [origin |-> <<83, 227, 111, 32, 80, 97, 117, 108, 111, 44, 32, 83, 80>>,
     destination |-> <<66, 101, 108, 111, 32, 72, 111, 114, 105, 122, 111, 110, 116, 101, 44, 32, 77, 71>>,
     distanceKm |-> 586],
    \* Salvador, BA -> Feira de Santana, BA
    [origin |-> <<83, 97, 108, 118, 97, 100, 111, 114, 44, 32, 66, 65>>,
     destination |-> <<70, 101, 105, 114, 97, 32, 100, 101, 32, 83, 97, 110, 116, 97, 110, 97, 44, 32, 66, 65>>,
     distanceKm |-> 109],
    \* Salvador, BA -> Brasilia, DF
    [origin |-> <<83, 97, 108, 118, 97, 100, 111, 114, 44, 32, 66, 65>>,
     destination |-> <<66, 114, 97, 115, 237, 108, 105, 97, 44, 32, 68, 70>>,
     distanceKm |-> 1120],
    \* Fortaleza, CE -> Natal, RN
    [origin |-> <<70, 111, 114, 116, 97, 108, 101, 122, 97, 44, 32, 67, 69>>,
     destination |-> <<78, 97, 116, 97, 108, 44, 32, 82, 78>>,
     distanceKm |-> 534],
    \* Recife, PE -> Joao Pessoa, PB
    [origin |-> <<82, 101, 99, 105, 102, 101, 44, 32, 80, 69>>,
     destination |-> <<74, 111, 227, 111, 32, 80, 101, 115, 115, 111, 97, 44, 32, 80, 66>>,
     distanceKm |-> 120],
    \* Recife, PE -> Salvador, BA
    [origin |-> <<82, 101, 99, 105, 102, 101, 44, 32, 80, 69>>,
     destination |-> <<83, 97, 108, 118, 97, 100, 111, 114, 44, 32, 66, 65>>,
     distanceKm |-> 800],
    \* Manaus, AM -> Porto Velho, RO
    [origin |-> <<77, 97, 110, 97, 117, 115, 44, 32, 65, 77>>,
     destination |-> <<80, 111, 114, 116, 111, 32, 86, 101, 108, 104, 111, 44, 32, 82, 79>>,
     distanceKm |-> 880],
    \* Belem, PA -> Sao Luis, MA
    [origin |-> <<66, 101, 108, 233, 109, 44, 32, 80, 65>>,
     destination |-> <<83, 227, 111, 32, 76, 117, 237, 115, 44, 32, 77, 65>>,
     distanceKm |-> 980],
    \* Curitiba, PR -> Florianopolis, SC
    [origin |-> <<67, 117, 114, 105, 116, 105, 98, 97, 44, 32, 80, 82>>,
     destination |-> <<70, 108, 111, 114, 105, 97, 110, 243, 112, 111, 108, 105, 115, 44, 32, 83, 67>>,
     distanceKm |-> 300],
    \* Porto Alegre, RS -> Florianopolis, SC
    [origin |-> <<80, 111, 114, 116, 111, 32, 65, 108, 101, 103, 114, 101, 44, 32, 82, 83>>,
     destination |-> <<70, 108, 111, 114, 105, 97, 110, 243, 112, 111, 108, 105, 115, 44, 32, 83, 67>>,
     distanceKm |-> 470],
    \* Curitiba, PR -> Sao Paulo, SP
    [origin |-> <<67, 117, 114, 105, 116, 105, 98, 97, 44, 32, 80, 82>>,
     destination |-> <<83, 227, 111, 32, 80, 97, 117, 108, 111, 44, 32, 83, 80>>,
     distanceKm |-> 408],
    \* Vitoria, ES -> Rio de Janeiro, RJ
    [origin |-> <<86, 105, 116, 243, 114, 105, 97, 44, 32, 69, 83>>,
     destination |-> <<82, 105, 111, 32, 100, 101, 32, 74, 97, 110, 101, 105, 114, 111, 44, 32, 82, 74>>,
     distanceKm |-> 520],
    \* Goiania, GO -> Brasilia, DF
    [origin |-> <<71, 111, 105, 226, 110, 105, 97, 44, 32, 71, 79>>,
     destination |-> <<66, 114, 97, 115, 237, 108, 105, 97, 44, 32, 68, 70>>,
     distanceKm |-> 205],
    \* Cuiaba, MT -> Campo Grande, MS
    [origin |-> <<67, 117, 105, 97, 98, 225, 44, 32, 77, 84>>,
     destination |-> <<67, 97, 109, 112, 111, 32, 71, 114, 97, 110, 100, 101, 44, 32, 77, 83>>,
     distanceKm |-> 690],
    \* Campo Grande, MS -> Goiania, GO
    [origin |-> <<67, 97, 109, 112, 111, 32, 71, 114, 97, 110, 100, 101, 44, 32, 77, 83>>,
     destination |-> <<71, 111, 105, 226, 110, 105, 97, 44, 32, 71, 79>>,
     distanceKm |-> 780],
    \* Manaus, AM -> Belem, PA
    [origin |-> <<77, 97, 110, 97, 117, 115, 44, 32, 65, 77>>,
     destination |-> <<66, 101, 108, 233, 109, 44, 32, 80, 65>>,
     distanceKm |-> 1040],
    \* Teresina, PI -> Fortaleza, CE
    [origin |-> <<84, 101, 114, 101, 115, 105, 110, 97, 44, 32, 80, 73>>,
     destination |-> <<70, 111, 114, 116, 97, 108, 101, 122, 97, 44, 32, 67, 69>>,
     distanceKm |-> 530],
    \* Joao Pessoa, PB -> Natal, RN
    [origin |-> <<74, 111, 227, 111, 32, 80, 101, 115, 115, 111, 97, 44, 32, 80, 66>>,
     destination |-> <<78, 97, 116, 97, 108, 44, 32, 82, 78>>,
     distanceKm |-> 190],
    \* Aracaju, SE -> Salvador, BA
    [origin |-> <<65, 114, 97, 99, 97, 106, 117, 44, 32, 83, 69>>,
     destination |-> <<83, 97, 108, 118, 97, 100, 111, 114, 44, 32, 66, 65>>,
     distanceKm |-> 330],
    \* Maceio, AL -> Recife, PE
    [origin |-> <<77, 97, 99, 101, 105, 243, 44, 32, 65, 76>>,
     destination |-> <<82, 101, 99, 105, 102, 101, 44, 32, 80, 69>>,
     distanceKm |-> 250],
    \* Sao Paulo, SP -> Santos, SP
    [origin |-> <<83, 227, 111, 32, 80, 97, 117, 108, 111, 44, 32, 83, 80>>,
     destination |-> <<83, 97, 110, 116, 111, 115, 44, 32, 83, 80>>,
     distanceKm |-> 72],
    \* Rio de Janeiro, RJ -> Petropolis, RJ
    [origin |-> <<82, 105, 111, 32, 100, 101, 32, 74, 97, 110, 101, 105, 114, 111, 44, 32, 82, 74>>,
     destination |-> <<80, 101, 116, 114, 243, 112, 111, 108, 105, 115, 44, 32, 82, 74>>,
     distanceKm |-> 68],
    \* Belo Horizonte, MG -> Uberlandia, MG
    [origin |-> <<66, 101, 108, 111, 32, 72, 111, 114, 105, 122, 111, 110, 116, 101, 44, 32, 77, 71>>,
     destination |-> <<85, 98, 101, 114, 108, 226, 110, 100, 105, 97, 44, 32, 77, 71>>,
     distanceKm |-> 500],
    \* Ribeirao Preto, SP -> Sao Paulo, SP
    [origin |-> <<82, 105, 98, 101, 105, 114, 227, 111, 32, 80, 114, 101, 116, 111, 44, 32, 83, 80>>,
     destination |-> <<83, 227, 111, 32, 80, 97, 117, 108, 111, 44, 32, 83, 80>>,
     distanceKm |-> 318],
    \* Campinas, SP -> Sao Jose dos Campos, SP
    [origin |-> <<67, 97, 109, 112, 105, 110, 97, 115, 44, 32, 83, 80>>,
     destination |-> <<83, 227, 111, 32, 74, 111, 115, 233, 32, 100, 111, 115, 32, 67, 97, 109, 112, 111, 115, 44, 32, 83, 80>>,
     distanceKm |-> 100],
    \* Porto Velho, RO -> Rio Branco, AC
    [origin |-> <<80, 111, 114, 116, 111, 32, 86, 101, 108, 104, 111, 44, 32, 82, 79>>,
     destination |-> <<82, 105, 111, 32, 66, 114, 97, 110, 99, 111, 44, 32, 65, 67>>,
     distanceKm |-> 507],
    \* Palmas, TO -> Goiania, GO
    [origin |-> <<80, 97, 108, 109, 97, 115, 44, 32, 84, 79>>,
     destination |-> <<71, 111, 105, 226, 110, 105, 97, 44, 32, 71, 79>>,
     distanceKm |-> 720],
    \* Salvador, BA -> Ilheus, BA
    [origin |-> <<83, 97, 108, 118, 97, 100, 111, 114, 44, 32, 66, 65>>,
     destination |-> <<73, 108, 104, 233, 117, 115, 44, 32, 66, 65>>,
     distanceKm |-> 275],
    \* Curitiba, PR -> Porto Alegre, RS
    [origin |-> <<67, 117, 114, 105, 116, 105, 98, 97, 44, 32, 80, 82>>,
     destination |-> <<80, 111, 114, 116, 111, 32, 65, 108, 101, 103, 114, 101, 44, 32, 82, 83>>,
     distanceKm |-> 710]
  >>

\* WhiteSpace and LineTerminator code units, which String.prototype.trim strips
WhiteSpaceUnits ==
  {9, 10, 11, 12, 13, 32, 160, 5760, 8232, 8233, 8239, 8287, 12288, 65279} \cup (8192 .. 8202)

RECURSIVE TrimStart(_)
TrimStart(str) ==
  IF str # <<>> /\ str[1] \in WhiteSpaceUnits THEN TrimStart(Tail(str)) ELSE str

RECURSIVE TrimEnd(_)
TrimEnd(str) ==
  IF str # <<>> /\ str[Len(str)] \in WhiteSpaceUnits
  THEN TrimEnd(SubSeq(str, 1, Len(str) - 1)) ELSE str

\* String.prototype.trim
trim(str) == TrimEnd(TrimStart(str))

\* String.prototype.toLowerCase on Basic Latin and Latin-1 code units (A-Z, and
\* the accented capitals except the multiplication sign 215); the other units that
\* occur in the table and the inputs have no lower-case mapping
LowerUnit(c) ==
  IF c \in 65 .. 90 \/ (c \in 192 .. 222 /\ c # 215) THEN c + 32 ELSE c

toLowerCase(str) == [i \in DOMAIN str |-> LowerUnit(str[i])]

VARIABLES
  routes,  \* RoutesDB.routes
  call,    \* the call of the public API being made: [op, x, y]
  pc,      \* "call" while the call is pending, "done" once it has returned
  result,  \* what it returned
  form,    \* the fields of the calculator form
  button,  \* the submit button: disabled, innerHTML, dataset.originalText
  sections, \* results, comparison, carbon-credits: hidden or not, and their content
  timers,  \* the callbacks handed to setTimeout that have not run yet, oldest first
  alert    \* the last message of window.alert, "" before the first

vars == <<routes, call, pc, result, form, button, sections, timers, alert>>

apiVars == <<routes, call, pc, result>>

pageVars == <<form, button, sections, timers, alert>>

\* the record found last instead of first
RECURSIVE ScanLast(_, _, _)
ScanLast(i, o, d) ==
  IF i > Len(routes) THEN Null
  ELSE LET later   == ScanLast(i + 1, o, d)
           rOrigin == toLowerCase(trim(routes[i].origin))
           rDest   == toLowerCase(trim(routes[i].destination))
       IN IF later # Null THEN later
          ELSE IF (rOrigin = o /\ rDest = d) \/ (rOrigin = d /\ rDest = o)
               THEN FromInt(routes[i].distanceKm)
               ELSE Null

\* the first record from index i on that matches o, d in either direction
RECURSIVE ScanRoutes(_, _, _)
ScanRoutes(i, o, d) ==
  IF i > Len(routes) THEN Null
  ELSE LET r       == routes[i]
           rOrigin == toLowerCase(trim(r.origin))
           rDest   == toLowerCase(trim(r.destination))
       IN IF (rOrigin = o /\ rDest = d) \/ (rOrigin = d /\ rDest = o)
          THEN FromInt(r.distanceKm)
          ELSE ScanRoutes(i + 1, o, d)

\* a lookup that tries each record in its stored direction only
RECURSIVE ScanForward(_, _, _)
ScanForward(i, o, d) ==
  IF i > Len(routes) THEN Null
  ELSE IF toLowerCase(trim(routes[i].origin)) = o /\ toLowerCase(trim(routes[i].destination)) = d
       THEN FromInt(routes[i].distanceKm)
       ELSE ScanForward(i + 1, o, d)

findDistanceForward(origin, destination) ==
  IF origin = <<>> \/ destination = <<>> THEN Null
  ELSE ScanForward(1, toLowerCase(trim(origin)), toLowerCase(trim(destination)))

\* a lookup that takes a record as soon as one of its two cities is the origin asked for
RECURSIVE ScanOrigin(_, _, _)
ScanOrigin(i, o, d) ==
  IF i > Len(routes) THEN Null
  ELSE IF toLowerCase(trim(routes[i].origin)) = o \/ toLowerCase(trim(routes[i].destination)) = o
       THEN FromInt(routes[i].distanceKm)
       ELSE ScanOrigin(i + 1, o, d)

findDistanceByOrigin(origin, destination) ==
  IF origin = <<>> \/ destination = <<>> THEN Null
  ELSE ScanOrigin(1, toLowerCase(trim(origin)), toLowerCase(trim(destination)))

\* the origin and the destination of every record, in the order routes.forEach
\* visits them
VisitedNames ==
  [k \in 1 .. 2 * Len(routes) |->
     IF k % 2 = 1 THEN routes[(k + 1) \div 2].origin ELSE routes[k \div 2].destination]

\* Array.from(set): set.add keeps a name the first time it is seen; an empty name is
\* not added (r.origin, r.destination are tested for truth)
CollectNames ==
  LET IsNew(p) == p[2] # <<>> /\ \A j \in 1 .. p[1] - 1 : VisitedNames[j] # p[2]
      kept == SelectSeq([k \in DOMAIN VisitedNames |-> <<k, VisitedNames[k]>>], IsNew)
  IN [i \in DOMAIN kept |-> kept[i][2]]

\* the letter of a code unit, without accent and in lower case (Basic Latin, Latin-1)
BaseLetter(c) ==
  IF c \in 65 .. 90 THEN c + 32
  ELSE IF c \in 97 .. 122 THEN c
  ELSE LET u == IF c \in 224 .. 254 THEN c - 32 ELSE c
       IN IF u \in 192 .. 197 THEN 97
          ELSE IF u = 199 THEN 99
          ELSE IF u \in 200 .. 203 THEN 101
          ELSE IF u \in 204 .. 207 THEN 105
          ELSE IF u = 209 THEN 110
          ELSE IF u \in {210, 211, 212, 213, 214} THEN 111
          ELSE IF u \in 217 .. 220 THEN 117
          ELSE IF u = 221 THEN 121
          ELSE 0

\* primary weight: white space, then punctuation, then digits, then the letters in
\* alphabetical order whatever their accent and case
PrimaryWeight(c) ==
  IF c \in WhiteSpaceUnits THEN 1
  ELSE IF BaseLetter(c) # 0 THEN 1000 + BaseLetter(c)
  ELSE IF c \in 48 .. 57 THEN 500 + c
  ELSE 100 + c

\* secondary weight: no accent, acute, grave, circumflex, ring, diaeresis, tilde, cedilla
SecondaryWeight(c) ==
  LET u == IF c \in 224 .. 254 THEN c - 32 ELSE c
  IN IF u \in {193, 201, 205, 211, 218, 221} THEN 1
     ELSE IF u \in {192, 200, 204, 210, 217} THEN 2
     ELSE IF u \in {194, 202, 206, 212, 219} THEN 3
     ELSE IF u = 197 THEN 4
     ELSE IF u \in {196, 203, 207, 214, 220} THEN 5
     ELSE IF u \in {195, 209, 213} THEN 6
     ELSE IF u = 199 THEN 7
     ELSE 0

\* tertiary weight: lower case before upper case
TertiaryWeight(c) ==
  IF c \in 65 .. 90 \/ (c \in 192 .. 222 /\ c # 215) THEN 1 ELSE 0

\* -1, 0, 1 as the sequence of integers a comes before, equals, comes after b
RECURSIVE CompareWeights(_, _)
CompareWeights(a, b) ==
  IF a = <<>> THEN (IF b = <<>> THEN 0 ELSE -1)
  ELSE IF b = <<>> THEN 1
  ELSE IF a[1] < b[1] THEN -1
  ELSE IF a[1] > b[1] THEN 1
  ELSE CompareWeights(Tail(a), Tail(b))

\* a.localeCompare(b, 'pt-BR'): the letters decide, then the accents, then the case
localeCompare(a, b) ==
  LET primary == CompareWeights([i \in DOMAIN a |-> PrimaryWeight(a[i])],
                                [i \in DOMAIN b |-> PrimaryWeight(b[i])])
      secondary == CompareWeights([i \in DOMAIN a |-> SecondaryWeight(a[i])],
                                  [i \in DOMAIN b |-> SecondaryWeight(b[i])])
      tertiary == CompareWeights([i \in DOMAIN a |-> TertiaryWeight(a[i])],
                                 [i \in DOMAIN b |-> TertiaryWeight(b[i])])
  IN IF primary # 0 THEN primary ELSE IF secondary # 0 THEN secondary ELSE tertiary

\* the names sorted by their code units
SortByUnits(names) ==
  LET rank == [k \in DOMAIN names |->
                 1 + Cardinality({j \in DOMAIN names :
                                    \/ CompareWeights(names[j], names[k]) < 0
                                    \/ CompareWeights(names[j], names[k]) = 0 /\ j < k})]
  IN [p \in DOMAIN names |-> names[CHOOSE k \in DOMAIN names : rank[k] = p]]

\* the cities sorted by their code units, as sort() without a comparator does
getAllCitiesByUnits == SortByUnits(CollectNames)

\* Array.prototype.sort with localeCompare, which orders the names consistently: a
\* stable sort, which puts a name behind the names that compare less and behind the
\* names before it that compare equal
SortNames(names) ==
  LET rank == [k \in DOMAIN names |->
                 1 + Cardinality({j \in DOMAIN names :
                                    \/ localeCompare(names[j], names[k]) < 0
                                    \/ localeCompare(names[j], names[k]) = 0 /\ j < k})]
  IN [p \in DOMAIN names |-> names[CHOOSE k \in DOMAIN names : rank[k] = p]]

getAllCities == SortNames(CollectNames)

\* a lookup that lower-cases its arguments without trimming them
findDistanceUntrimmed(origin, destination) ==
  IF origin = <<>> \/ destination = <<>> THEN Null
  ELSE ScanRoutes(1, toLowerCase(origin), toLowerCase(destination))

findDistance(origin, destination) ==
  IF origin = <<>> \/ destination = <<>> THEN Null
  ELSE ScanRoutes(1, toLowerCase(trim(origin)), toLowerCase(trim(destination)))

(***************************************************************************)
(* The inputs of the calls.  A number argument is a number literal.        *)
(***************************************************************************)
NonFiniteLits == {NaNLit, InfLit, NegInfLit}

\* whole kilometres 0 .. MaxDistKm
MaxDistKm == 210

\* thousandths of a kilometre 0 .. MaxMilliKm
MaxMilliKm == 130

\* hundredths of a kilogram -MinusCents .. MaxCents (emission, baseline)
MaxCents == 40

MinusCents == 3

\* hundredths of a kilogram 0 .. MaxKgCents (emission to offset)
MaxKgCents == 120

\* ten-thousandths of a credit 0 .. MaxCreditUnits
MaxCreditUnits == 220

RouteDistances == {RouteTable[i].distanceKm : i \in DOMAIN RouteTable}

DistanceInputs ==
  {DecLit(n, 0) : n \in (0 .. MaxDistKm) \cup RouteDistances \cup {-1}}
    \cup {DecLit(n, 3) : n \in (0 .. MaxMilliKm) \cup {-500, 8375, 17125, 66670}}
    \cup NonFiniteLits

ModeInputs == {"bicycle", "car", "bus", "boat", "train", "", "toString", "constructor"}

EmissionInputs ==
  {DecLit(n, 2) : n \in (-MinusCents .. MaxCents) \cup {3827, 5160}} \cup NonFiniteLits

KgInputs ==
  {DecLit(n, 2) : n \in (0 .. MaxKgCents) \cup {-1, 5160, 5165, 100000}} \cup NonFiniteLits

CreditInputs ==
  {DecLit(n, 4) : n \in (0 .. MaxCreditUnits) \cup {-1, 516, 10000}} \cup NonFiniteLits

CityNames ==
  {RouteTable[i].origin : i \in DOMAIN RouteTable}
    \cup {RouteTable[i].destination : i \in DOMAIN RouteTable}

\* "", " ", NBSP + " ", "Unknown", " Sao Paulo, SP " (padded), "SAO PAULO, SP",
\* "rio de janeiro, rj", TAB + "Campinas, SP" + LF  (with the accents of the table)
OtherNames ==
  {<<>>, <<32>>, <<160, 32>>,
   <<85, 110, 107, 110, 111, 119, 110>>,
   <<32, 83, 227, 111, 32, 80, 97, 117, 108, 111, 44, 32, 83, 80, 32>>,
   <<83, 195, 79, 32, 80, 65, 85, 76, 79, 44, 32, 83, 80>>,
   <<114, 105, 111, 32, 100, 101, 32, 106, 97, 110, 101, 105, 114, 111, 44, 32, 114, 106>>,
   <<9, 67, 97, 109, 112, 105, 110, 97, 115, 44, 32, 83, 80, 10>>}

NameInputs == CityNames \cup OtherNames

NoArg == "-"

(***************************************************************************)
(* The page: the form (origin, destination, distance, the manual-distance  *)
(* checkbox, the helper line under the distance, the transport radios),    *)
(* the submit button, the three result sections, the timers that           *)
(* onFormSubmit has scheduled and the last message of window.alert.        *)
(* Strings that the code parses or normalises are sequences of code units. *)
(***************************************************************************)
DigitUnits == 48 .. 57

\* the number of decimal digits of str from index i on
RECURSIVE DigitRun(_, _)
DigitRun(str, i) ==
  IF i <= Len(str) /\ str[i] \in DigitUnits THEN 1 + DigitRun(str, i + 1) ELSE 0

\* the value of the decimal digits str[i], ..., str[i + n - 1] appended to acc
RECURSIVE DigitsValue(_, _, _, _)
DigitsValue(str, i, n, acc) ==
  IF n = 0 THEN acc ELSE DigitsValue(str, i + 1, n - 1, 10 * acc + (str[i] - 48))

UnitAt(str, i) == IF i \in DOMAIN str THEN str[i] ELSE 0

\* "Infinity"
InfinityUnits == <<73, 110, 102, 105, 110, 105, 116, 121>>

HasPrefixAt(str, i, prefix) ==
  /\ i + Len(prefix) - 1 <= Len(str)
  /\ \A j \in DOMAIN prefix : str[i + j - 1] = prefix[j]

\* the exponent part at index i (e or E, an optional sign, digits): the exponent,
\* 0 when there is no exponent part
ExponentAt(str, i) ==
  IF UnitAt(str, i) \in {69, 101}
  THEN LET signed == UnitAt(str, i + 1) \in {43, 45}
           from == IF signed THEN i + 2 ELSE i + 1
           value == DigitsValue(str, from, DigitRun(str, from), 0)
       IN IF UnitAt(str, i + 1) = 45 THEN -value ELSE value
  ELSE 0

\* the number n * 10^e
Scaled(n, e) == IF e >= 0 THEN FromInt(n * 10 ^ e) ELSE Dec(n, -e)

\* the decimal literal that starts at index i: digits, an optional point and digits,
\* an optional exponent; NaN when there is no digit
ParseDecimalAt(str, i) ==
  LET intLen == DigitRun(str, i)
      pointed == UnitAt(str, i + intLen) = 46
      fracLen == IF pointed THEN DigitRun(str, i + intLen + 1) ELSE 0
      mantissa == DigitsValue(str, i + intLen + 1, fracLen,
                              DigitsValue(str, i, intLen, 0))
      behind == IF pointed THEN i + intLen + 1 + fracLen ELSE i + intLen
  IN IF intLen + fracLen = 0 THEN NaN
     ELSE Scaled(mantissa, ExponentAt(str, behind) - fracLen)

\* parseFloat(str): leading white space is skipped, then the longest prefix that is
\* a signed decimal literal or Infinity is converted; what follows is ignored
parseFloat(str) ==
  LET s == TrimStart(str)
      signed == UnitAt(s, 1) \in {43, 45}
      from == IF signed THEN 2 ELSE 1
      magnitude == IF HasPrefixAt(s, from, InfinityUnits) THEN Inf(1)
                   ELSE ParseDecimalAt(s, from)
  IN IF UnitAt(s, 1) = 45 THEN FNeg(magnitude) ELSE magnitude

\* the decimal digits of n >= 0
RECURSIVE DigitsOf(_)
DigitsOf(n) ==
  IF n < 10 THEN <<48 + n>> ELSE Append(DigitsOf(n \div 10), 48 + (n % 10))

\* String(x) of a number whose value is an integer, as the distances of the route
\* table are
NumberToString(x) ==
  LET magnitude == IF IsZero(x) THEN 0
                   ELSE BNToInt(IF x.e >= 0 THEN BNShl(x.m, x.e) ELSE BNShr(x.m, -x.e))
  IN IF x.s < 0 /\ magnitude > 0 THEN <<45>> \o DigitsOf(magnitude)
     ELSE DigitsOf(magnitude)

\* x <= 0
NotPositive(x) == x.k \in {"num", "inf"} /\ ~IsPositive(x)

\* " km"
KmUnits == <<32, 107, 109>>

\* helper.textContent = message + number (the message alone when number is empty) and
\* helper.style.color = color
setHelper(f, message, number, color) ==
  [f EXCEPT !.helper = [message |-> message, number |-> number, color |-> color]]

clearDistance(f) == [f EXCEPT !.distance = <<>>, !.readOnly = TRUE]

\* tryAutofill without the test of the checkbox
tryAutofillInManualMode(f) ==
  LET originVal == trim(f.origin)
      destVal == trim(f.destination)
  IN IF originVal = <<>> \/ destVal = <<>>
     THEN setHelper(clearDistance(f), "A distância será preenchida automaticamente",
                    <<>>, "")
     ELSE LET distance == findDistance(originVal, destVal)
          IN IF distance # Null
             THEN setHelper([f EXCEPT !.distance = NumberToString(distance),
                                      !.readOnly = TRUE],
                            "Distância encontrada: ",
                            NumberToString(distance) \o KmUnits, "var(--primary)")
             ELSE setHelper(clearDistance(f),
                            "Rota não encontrada. Você pode inserir a distância manualmente.",
                            <<>>, "var(--text-light)")

tryAutofill(f) ==
  LET originVal == trim(f.origin)
      destVal == trim(f.destination)
  IN IF f.manual THEN f
     ELSE IF originVal = <<>> \/ destVal = <<>>
     THEN setHelper(clearDistance(f), "A distância será preenchida automaticamente",
                    <<>>, "")
     ELSE LET distance == findDistance(originVal, destVal)
          IN IF distance # Null
             THEN setHelper([f EXCEPT !.distance = NumberToString(distance),
                                      !.readOnly = TRUE],
                            "Distância encontrada: ",
                            NumberToString(distance) \o KmUnits, "var(--primary)")
             ELSE setHelper(clearDistance(f),
                            "Rota não encontrada. Você pode inserir a distância manualmente.",
                            <<>>, "var(--text-light)")

\* the change listener of the checkbox, switching the read-only flag over
onManualChangeToggling(f) ==
  IF f.manual
  THEN setHelper([f EXCEPT !.readOnly = ~f.readOnly],
                 "Modo manual ativado. Insira a distância em km.", <<>>,
                 "var(--secondary)")
  ELSE tryAutofill(f)

\* the change listener of the manual-distance checkbox
onManualChange(f) ==
  IF f.manual
  THEN setHelper([f EXCEPT !.readOnly = FALSE],
                 "Modo manual ativado. Insira a distância em km.", <<>>,
                 "var(--secondary)")
  ELSE tryAutofill(f)

\* the form as the document holds it before a script has run: the fields empty,
\* the checkbox unchecked, no radio checked (transport holds the value of the
\* checked radio, and nothing while no radio is checked)
DocumentForm ==
  [origin |-> <<>>, destination |-> <<>>, distance |-> <<>>, readOnly |-> FALSE,
   manual |-> FALSE, helper |-> [message |-> "", number |-> <<>>, color |-> ""],
   transport |-> <<>>]

\* setupDistanceAutofill: registers its listeners and tries a first autofill
setupDistanceAutofill(f) == tryAutofill(f)

\* setupDistanceAutofill has run twice, once when config.js was loaded and once in
\* initialize of the application
InitialForm == setupDistanceAutofill(setupDistanceAutofill(DocumentForm))

ButtonContent == "Calcular"

SpinnerMarkup == "<span class=\"spinner\"></span> Calculando..."

\* dataset.originalText holds the stored text, and nothing while the attribute is
\* absent
InitialButton ==
  [disabled |-> FALSE, innerHTML |-> ButtonContent, originalText |-> <<>>]

\* a data attribute that is absent or empty is falsy
Falsy(attribute) == attribute = <<>> \/ attribute[1] = ""

\* showLoading that stores the button's content at every call
showLoadingAlwaysStoring(b) ==
  [disabled |-> TRUE, innerHTML |-> SpinnerMarkup, originalText |-> <<b.innerHTML>>]

showLoading(b) ==
  [disabled |-> TRUE,
   innerHTML |-> SpinnerMarkup,
   originalText |-> IF Falsy(b.originalText) THEN <<b.innerHTML>> ELSE b.originalText]

hideLoading(b) ==
  IF Falsy(b.originalText) THEN [b EXCEPT !.disabled = FALSE]
  ELSE [disabled |-> FALSE, innerHTML |-> b.originalText[1], originalText |-> <<>>]

SectionIds == {"results", "comparison", "carbon-credits"}

\* the sections hidden and empty
InitialSections == [id \in SectionIds |-> [hidden |-> TRUE, content |-> Null]]

hideElements(s) == [id \in SectionIds |-> [s[id] EXCEPT !.hidden = TRUE]]

\* the validation without the test of the distance
ValidationAlertOfNames(f) ==
  IF trim(f.origin) = <<>> \/ trim(f.destination) = <<>>
  THEN "Por favor, preencha origem e destino."
  ELSE IF f.transport = <<>> \/ f.transport[1] = ""
  THEN "Por favor, selecione um modo de transporte."
  ELSE ""

\* the validation of onFormSubmit: the message of the alert, "" when the form is valid
ValidationAlert(f) ==
  IF trim(f.origin) = <<>> \/ trim(f.destination) = <<>>
  THEN "Por favor, preencha origem e destino."
  ELSE IF parseFloat(f.distance).k = "nan" \/ NotPositive(parseFloat(f.distance))
  THEN "Por favor, informe uma distância válida maior que 0 km."
  ELSE IF f.transport = <<>> \/ f.transport[1] = ""
  THEN "Por favor, selecione um modo de transporte."
  ELSE ""

\* what the callback handed to setTimeout has captured
Capture(f) ==
  [origin |-> trim(f.origin), destination |-> trim(f.destination),
   distance |-> parseFloat(f.distance), selectedTransport |-> f.transport[1]]

\* the data rendered into the three containers by the callback
Rendered(t) ==
  LET emission == calculateEmission(t.distance, t.selectedTransport)
      carEmission == calculateEmission(t.distance, "car")
      credits == calculateCarbonCredits(emission)
  IN [id \in SectionIds |->
        [hidden |-> FALSE,
         content |->
           IF id = "results"
           THEN [origin |-> t.origin, destination |-> t.destination,
                 distance |-> t.distance, emission |-> emission,
                 mode |-> t.selectedTransport,
                 savings |-> IF carEmission # Null
                             THEN calculateSavings(emission, carEmission) ELSE Null]
           ELSE IF id = "comparison"
           THEN [modes |-> calculateAllModes(t.distance),
                 selectedMode |-> t.selectedTransport]
             ELSE [credits |-> IF credits = Null \/ credits.k = "nan" \/ IsZero(credits)
                             THEN Zero ELSE credits,
                 price |-> IF credits # Null /\ estimateCreditPrice(credits) # Null
                           THEN estimateCreditPrice(credits)
                           ELSE [min |-> Zero, max |-> Zero, average |-> Zero]]]]

(***************************************************************************)
(* The state machine.  The page holds the route table; a run is one call   *)
(* of the public API: Init draws the call and its arguments from the input *)
(* sets, and the action of the called function runs it to its return.      *)
(***************************************************************************)
Calls ==
  [op : {"findDistance"}, x : NameInputs, y : NameInputs]
    \cup [op : {"calculateEmission"}, x : DistanceInputs, y : ModeInputs]
    \cup [op : {"calculateAllModes"}, x : DistanceInputs, y : {NoArg}]
    \cup [op : {"calculateSavings"}, x : EmissionInputs, y : EmissionInputs]
    \cup [op : {"calculateCarbonCredits"}, x : KgInputs, y : {NoArg}]
    \cup [op : {"estimateCreditPrice"}, x : CreditInputs, y : {NoArg}]

\* the page once its scripts have run
PageLoaded ==
  /\ form = InitialForm
  /\ button = InitialButton
  /\ sections = InitialSections
  /\ timers = <<>>
  /\ alert = ""

Init ==
  /\ routes = RouteTable
  /\ call \in Calls
  /\ pc = "call"
  /\ result = Null
  /\ PageLoaded

Return(value) ==
  /\ pc = "call"
  /\ result' = value
  /\ pc' = "done"
  /\ UNCHANGED <<routes, call>>
  /\ UNCHANGED pageVars

FindDistance ==
  /\ call.op = "findDistance"
  /\ Return(findDistance(call.x, call.y))

CalculateEmission ==
  /\ call.op = "calculateEmission"
  /\ Return(calculateEmission(Num(call.x), call.y))

CalculateAllModes ==
  /\ call.op = "calculateAllModes"
  /\ Return(calculateAllModes(Num(call.x)))

CalculateSavings ==
  /\ call.op = "calculateSavings"
  /\ Return(calculateSavings(Num(call.x), Num(call.y)))

CalculateCarbonCredits ==
  /\ call.op = "calculateCarbonCredits"
  /\ Return(calculateCarbonCredits(Num(call.x)))

EstimateCreditPrice ==
  /\ call.op = "estimateCreditPrice"
  /\ Return(estimateCreditPrice(Num(call.x)))

Next ==
  \/ FindDistance
  \/ CalculateEmission
  \/ CalculateAllModes
  \/ CalculateSavings
  \/ CalculateCarbonCredits
  \/ EstimateCreditPrice

Spec == Init /\ [][Next]_vars

(***************************************************************************)
(* RoutesDB exposes the routes array itself, so a script of the page can   *)
(* add records to it before a lookup: at the end (push) or at the front    *)
(* (unshift).  The records added repeat the first record's pair with       *)
(* another distance, in the stored and in the reverse direction, and name  *)
(* a city in lower case.                                                   *)
(***************************************************************************)
\* records added to the table, at most
MaxPushed == 2

ExtraRoutes ==
  {[origin |-> RouteTable[1].origin, destination |-> RouteTable[1].destination,
    distanceKm |-> 999],
   [origin |-> RouteTable[1].destination, destination |-> RouteTable[1].origin,
    distanceKm |-> 111],
   [origin |-> toLowerCase(RouteTable[1].origin), destination |-> RouteTable[10].destination,
    distanceKm |-> 5]}

TableNames ==
  {RouteTable[1].origin, RouteTable[1].destination, RouteTable[10].destination,
   toLowerCase(RouteTable[1].origin), <<85, 110, 107, 110, 111, 119, 110>>}

CallsTable ==
  [op : {"findDistance"}, x : TableNames, y : TableNames]
    \cup {[op |-> "getAllCities", x |-> NoArg, y |-> NoArg]}

InitTable ==
  /\ routes = RouteTable
  /\ call \in CallsTable
  /\ pc = "call"
  /\ result = Null
  /\ PageLoaded

\* RoutesDB.routes.push(r)
PushRoute ==
  /\ pc = "call"
  /\ Len(routes) < Len(RouteTable) + MaxPushed
  /\ \E r \in ExtraRoutes : routes' = Append(routes, r)
  /\ UNCHANGED <<call, pc, result>>
  /\ UNCHANGED pageVars

\* RoutesDB.routes.unshift(r)
UnshiftRoute ==
  /\ pc = "call"
  /\ Len(routes) < Len(RouteTable) + MaxPushed
  /\ \E r \in ExtraRoutes : routes' = <<r>> \o routes
  /\ UNCHANGED <<call, pc, result>>
  /\ UNCHANGED pageVars

GetAllCities ==
  /\ call.op = "getAllCities"
  /\ Return(getAllCities)

NextTable ==
  \/ PushRoute
  \/ UnshiftRoute
  \/ FindDistance
  \/ GetAllCities

SpecTable == InitTable /\ [][NextTable]_vars

(***************************************************************************)
(* The form in use.  The user commits an origin or a destination, clicks   *)
(* the manual-distance checkbox, and types a distance while the field is   *)
(* editable.                                                               *)
(***************************************************************************)
\* "", " Sao Paulo, SP" (with a leading space), "RIO DE JANEIRO, RJ", "Campinas, SP",
\* "Unknown"
OriginInputs ==
  {<<>>, <<32>> \o RouteTable[1].origin,
   <<82, 73, 79, 32, 68, 69, 32, 74, 65, 78, 69, 73, 82, 79, 44, 32, 82, 74>>,
   RouteTable[4].destination, <<85, 110, 107, 110, 111, 119, 110>>}

\* " ", "rio de janeiro, rj", "Sao Paulo, SP", "Unknown"
DestinationInputs ==
  {<<32>>, toLowerCase(RouteTable[1].destination), RouteTable[1].origin,
   <<85, 110, 107, 110, 111, 119, 110>>}

\* "-5", "12.5"
TypedDistances == {<<45, 53>>, <<49, 50, 46, 53>>}

NoCall == [op |-> "none", x |-> NoArg, y |-> NoArg]

InitPage ==
  /\ routes = RouteTable
  /\ call = NoCall
  /\ pc = "done"
  /\ result = Null
  /\ PageLoaded

\* the form after the user has committed an origin: the change event of the input
\* runs the listener of each of the two registrations
AfterOrigin(f, value) == tryAutofill(tryAutofill([f EXCEPT !.origin = value]))

AfterDestination(f, value) == tryAutofill(tryAutofill([f EXCEPT !.destination = value]))

\* the form after the user has clicked the checkbox: its change event runs the
\* listener of each of the two registrations
AfterToggle(f) == onManualChange(onManualChange([f EXCEPT !.manual = ~f.manual]))

ChangeOrigin ==
  /\ \E value \in OriginInputs \ {form.origin} : form' = AfterOrigin(form, value)
  /\ UNCHANGED <<button, sections, timers, alert>>
  /\ UNCHANGED apiVars

ChangeDestination ==
  /\ \E value \in DestinationInputs \ {form.destination} :
       form' = AfterDestination(form, value)
  /\ UNCHANGED <<button, sections, timers, alert>>
  /\ UNCHANGED apiVars

ToggleManual ==
  /\ form' = AfterToggle(form)
  /\ UNCHANGED <<button, sections, timers, alert>>
  /\ UNCHANGED apiVars

\* the user types a distance, which a read-only field does not accept
TypeDistance ==
  /\ ~form.readOnly
  /\ \E value \in TypedDistances \ {form.distance} :
       form' = [form EXCEPT !.distance = value]
  /\ UNCHANGED <<button, sections, timers, alert>>
  /\ UNCHANGED apiVars

NextAutofill ==
  \/ ChangeOrigin
  \/ ChangeDestination
  \/ ToggleManual
  \/ TypeDistance

SpecAutofill == InitPage /\ [][NextAutofill]_vars

(***************************************************************************)
(* The form submitted.  The user has filled in the form, checks a          *)
(* transport radio, retypes the distance where it is editable, and submits *)
(* the form; a timer fires 1500 ms after the submit that set it, the       *)
(* oldest first.                                                           *)
(***************************************************************************)
\* callbacks waiting at the same time, at most
MaxPending == 2

\* the values of the transport radios: a mode of the factor table, and one that the
\* factor table does not hold
TransportValues == {"bus", "truck"}

\* the form untouched; with a route of the table, its distance filled in; with a
\* route that the table does not hold; with that route and a distance typed
FilledForms ==
  LET known == AfterDestination(AfterOrigin(InitialForm, <<32>> \o RouteTable[1].origin),
                                toLowerCase(RouteTable[1].destination))
      unknown == AfterDestination(AfterOrigin(InitialForm, <<32>> \o RouteTable[1].origin),
                                  <<85, 110, 107, 110, 111, 119, 110>>)
  IN {InitialForm, known, unknown} \cup
       {[AfterToggle(unknown) EXCEPT !.distance = value] : value \in TypedDistances}

InitSubmit ==
  /\ routes = RouteTable
  /\ call = NoCall
  /\ pc = "done"
  /\ result = Null
  /\ form \in FilledForms
  /\ button = InitialButton
  /\ sections = InitialSections
  /\ timers = <<>>
  /\ alert = ""

SelectTransport ==
  /\ \E value \in TransportValues :
       /\ form.transport # <<value>>
       /\ form' = [form EXCEPT !.transport = <<value>>]
  /\ UNCHANGED <<button, sections, timers, alert>>
  /\ UNCHANGED apiVars

\* onFormSubmit
Submit ==
  /\ IF ValidationAlert(form) # ""
     THEN /\ alert' = ValidationAlert(form)
          /\ UNCHANGED <<button, sections, timers>>
     ELSE /\ Len(timers) < MaxPending
          /\ button' = showLoading(button)
          /\ sections' = hideElements(sections)
          /\ timers' = Append(timers, Capture(form))
          /\ UNCHANGED alert
  /\ UNCHANGED form
  /\ UNCHANGED apiVars

\* the oldest timer fires and leaves the pending ones
TimerRuns == timers # <<>> /\ timers' = Tail(timers)

\* the callback of the oldest timer runs
TimerFires ==
  /\ TimerRuns
  /\ IF calculateEmission(Head(timers).distance, Head(timers).selectedTransport) = Null
     THEN /\ alert' = "Ocorreu um erro ao processar a solicitação. Tente novamente."
          /\ UNCHANGED sections
     ELSE /\ sections' = Rendered(Head(timers))
          /\ UNCHANGED alert
  /\ button' = hideLoading(button)
  /\ UNCHANGED form
  /\ UNCHANGED apiVars

NextSubmit ==
  \/ SelectTransport
  \/ TypeDistance
  \/ Submit
  \/ TimerFires

\* a timer that has been set fires: TimerFires is the one action that takes a timer
\* away, and it is enabled whenever a timer is pending
SpecSubmit == InitSubmit /\ [][NextSubmit]_vars /\ WF_timers(TimerRuns)

(***************************************************************************)
(* The properties.  They are stated over the call made and what it         *)
(* returned, with the exact decimal value of the arguments (the n and d    *)
(* of a literal n / 10^d) and integer arithmetic.                          *)
(***************************************************************************)
Done(op) == pc = "done" /\ call.op = op

\* the literal is a finite number >= 0
FiniteNonNegative(lit) == lit.t = "dec" /\ lit.n >= 0

\* the integer nearest to num / den (den > 0), a half rounded away from zero
RoundHalfAway(num, den) ==
  IF num >= 0 THEN (2 * num + den) \div (2 * den)
  ELSE -((2 * (-num) + den) \div (2 * den))

\* the factor of a mode of the table in thousandths of a kg per km
FactorMilli(mode) == EMISSION_FACTORS[mode].n * 10 ^ (3 - EMISSION_FACTORS[mode].d)

\* the record's two cities are the two names, in the stored or the reverse direction,
\* when surrounding white space and letter case are disregarded
SameName(a, b) == toLowerCase(trim(a)) = toLowerCase(trim(b))

RecordMatches(r, a, b) ==
  \/ SameName(r.origin, a) /\ SameName(r.destination, b)
  \/ SameName(r.origin, b) /\ SameName(r.destination, a)

Blank(str) == \A i \in DOMAIN str : str[i] \in WhiteSpaceUnits

\* C1: for every record (A, B, d) of the route table, findDistance(A, B) returns d
\* and findDistance(B, A) returns d.
C1_DirectionSymmetry ==
  \A i \in DOMAIN RouteTable :
    /\ Done("findDistance")
    /\ \/ call.x = RouteTable[i].origin /\ call.y = RouteTable[i].destination
       \/ call.x = RouteTable[i].destination /\ call.y = RouteTable[i].origin
    => result = FromInt(RouteTable[i].distanceKm)

\* findDistance("Rio de Janeiro, RJ", "Sao Paulo, SP"), the reverse of the first
\* record, has returned the record's 430 km
C1_ReverseLookupDone ==
  /\ Done("findDistance")
  /\ call.x = RouteTable[1].destination
  /\ call.y = RouteTable[1].origin
  /\ result = FromInt(RouteTable[1].distanceKm)

\* C2: findDistance returns null, and leaves the route table as it was, whenever
\* either argument is empty or only white space and whenever no record matches the
\* pair in either direction.
C2_NotFoundIsNull ==
  Done("findDistance") =>
    /\ routes = RouteTable
    /\ (\/ Blank(call.x)
        \/ Blank(call.y)
        \/ ~\E i \in DOMAIN RouteTable : RecordMatches(RouteTable[i], call.x, call.y))
       => result = Null

\* findDistance("Unknown", "Unknown") has returned null
C2_UnknownPairDone ==
  /\ Done("findDistance")
  /\ call.x = <<85, 110, 107, 110, 111, 119, 110>>
  /\ call.y = call.x
  /\ result = Null
  /\ routes = RouteTable

\* C3: calculateEmission returns null for every distance that is not a finite
\* non-negative number (NaN, negative, +Infinity) and for every mode that is not a
\* key of the emission factor table, whatever the other argument is.
C3_InvalidIsNull ==
  /\ Done("calculateEmission")
  /\ ~FiniteNonNegative(call.x) \/ call.y \notin DOMAIN EMISSION_FACTORS
  => result = Null

\* C4: for every finite non-negative distance d and every mode m of the table,
\* calculateEmission(d, m) is d * factor[m] rounded half-up to 2 decimal places.
C4_EmissionHalfUp ==
  /\ Done("calculateEmission")
  /\ FiniteNonNegative(call.x)
  /\ call.y \in DOMAIN EMISSION_FACTORS
  => result = Dec(RoundHalfAway(call.x.n * FactorMilli(call.y), 10 ^ (call.x.d + 1)), 2)

\* the literal is a number > 0 (Infinity included)
PositiveLit(lit) == (lit.t = "dec" /\ lit.n > 0) \/ lit.t = "inf"

\* entry a must come behind entry b: a has no emission and b has one, or a's is greater
ComesBehind(a, b) ==
  IF a.emission = Null THEN b.emission # Null
  ELSE b.emission # Null /\ IsPositive(FSub(a.emission, b.emission))

\* C5: for every distance d, calculateAllModes(d) contains exactly one entry per mode
\* of the factor table, in ascending order of emission; when d > 0 the entry of the
\* factor-0 mode bicycle is the first, also when other emissions round to 0.00.
C5_OneEntryPerModeAscending ==
  Done("calculateAllModes") =>
    /\ Len(result) = Cardinality(DOMAIN EMISSION_FACTORS)
    /\ \A m \in DOMAIN EMISSION_FACTORS : \E i \in DOMAIN result : result[i].mode = m
    /\ \A i, j \in DOMAIN result : i < j => ~ComesBehind(result[i], result[j])
    /\ PositiveLit(call.x) => result[1].mode = "bicycle"

\* calculateAllModes(0.05) has returned bicycle, bus, car, boat: the bus emission
\* rounds to 0.00 and ties with the bicycle, which stays first
C5_TieAfterBicycleDone ==
  /\ Done("calculateAllModes")
  /\ call.x = DecLit(50, 3)
  /\ [i \in DOMAIN result |-> result[i].mode] = <<"bicycle", "bus", "car", "boat">>
  /\ result[2].emission = Zero
  /\ result[3].emission = Dec(1, 2)

\* the integer a number holds (for a number that is an integer)
ToInt(x) ==
  IF IsZero(x) THEN 0
  ELSE x.s * BNToInt(IF x.e >= 0 THEN BNShl(x.m, x.e) ELSE BNShr(x.m, -x.e))

\* a number with 2 decimals in hundredths
Hundredths(x) == ToInt(MathRound(FMul(x, FromInt(100))))

\* P is the integer nearest to num / den, a half rounded up (num >= 0, den > 0):
\* 2 num - den < 2 P den <= 2 num + den, in arbitrary precision
IsRoundedQuotient(P, num, den) ==
  LET twoPden == BNMulSmall(BNMul(BNFromInt(P), BNFromInt(den)), 2)
      twoNum  == BNMulSmall(BNFromInt(num), 2)
  IN /\ BNCmp(BNAdd(twoPden, BNFromInt(den)), twoNum) > 0
     /\ BNCmp(twoPden, BNAdd(twoNum, BNFromInt(den))) <= 0

PositiveFinite(x) == x.k = "num" /\ IsPositive(x)

\* the emission the result gives for the car
CarEmissionOf(entries) ==
  IF \E i \in DOMAIN entries : entries[i].mode = "car"
  THEN entries[CHOOSE i \in DOMAIN entries : entries[i].mode = "car"].emission
  ELSE Null

\* C6: in every entry of calculateAllModes(d), percentageVsCar is
\* round(entry.emission / carEmission * 100, 2) when the car emission is a positive
\* finite number and the entry's emission is valid, and null otherwise; the car entry
\* itself then has 100.
C6_PercentageVsCar ==
  Done("calculateAllModes") =>
    \A i \in DOMAIN result :
      LET car == CarEmissionOf(result)
          e   == result[i].emission
          pct == result[i].percentageVsCar
      IN IF PositiveFinite(car) /\ e # Null /\ IsFiniteNum(e)
         THEN /\ IsFiniteNum(pct)
              /\ pct = Dec(Hundredths(pct), 2)
              /\ IsRoundedQuotient(Hundredths(pct), Hundredths(e) * 10000, Hundredths(car))
              /\ result[i].mode = "car" => pct = FromInt(100)
         ELSE pct = Null

\* C7 as stated: min = round(credits * priceMin, 2), max = round(credits * priceMax, 2)
\* and average = round((min + max) / 2, 2) from the rounded min and max, for every
\* finite non-negative credits value (in ten-thousandths: n).
C7_AverageOfRounded ==
  Done("estimateCreditPrice") /\ FiniteNonNegative(call.x) =>
    LET n     == call.x.n * 10 ^ (4 - call.x.d)
        minC  == RoundHalfAway(n * PRICE_MIN_BRL, 100)
        maxC  == RoundHalfAway(n * PRICE_MAX_BRL, 100)
    IN /\ result # Null
       /\ result.min = Dec(minC, 2)
       /\ result.max = Dec(maxC, 2)
       /\ result.average = Dec(RoundHalfAway(minC + maxC, 2), 2)

\* c hundredths is num / den rounded to a nearest integer: |c - num / den| <= 1/2
IsNearest(c, num, den) == 2 * c * den - den <= 2 * num /\ 2 * num <= 2 * c * den + den

\* C7, amended: for every finite non-negative credits value, min and max are
\* credits * priceMin and credits * priceMax rounded to a nearest cent, and average is
\* (credits * priceMin + credits * priceMax) / 2, taken from the unrounded products,
\* rounded to the nearest cent.
C7_AverageOfUnrounded ==
  Done("estimateCreditPrice") /\ FiniteNonNegative(call.x) =>
    LET n == call.x.n * 10 ^ (4 - call.x.d)
    IN /\ result # Null
       /\ result.min = Dec(Hundredths(result.min), 2)
       /\ IsNearest(Hundredths(result.min), n * PRICE_MIN_BRL, 100)
       /\ result.max = Dec(Hundredths(result.max), 2)
       /\ IsNearest(Hundredths(result.max), n * PRICE_MAX_BRL, 100)
       /\ result.average = Dec(RoundHalfAway(n * (PRICE_MIN_BRL + PRICE_MAX_BRL), 200), 2)

\* estimateCreditPrice(0.0001) has returned 0.01, 0.02 and the average 0.01
C7_HalfCentDone ==
  /\ Done("estimateCreditPrice")
  /\ call.x = DecLit(1, 4)
  /\ result = [min |-> Dec(1, 2), max |-> Dec(2, 2), average |-> Dec(1, 2)]

\* C8: calculateSavings returns null whenever the emission or the baseline is not a
\* finite number, and never returns a result with a non-finite savedKg or percentage.
C8_NonFiniteIsNull ==
  Done("calculateSavings") =>
    /\ (call.x.t # "dec" \/ call.y.t # "dec") => result = Null
    /\ result # Null =>
         /\ IsFiniteNum(result.savedKg)
         /\ result.percentage = Null \/ IsFiniteNum(result.percentage)

\* C9: for all finite emission e and baseline b (in hundredths), calculateSavings(e, b)
\* returns savedKg = round(b - e, 2) and percentage = round(savedKg / b * 100, 2) when
\* b > 0, null when b <= 0; calculateSavings(e, e) gives 0 and 0 for e > 0.
C9_Savings ==
  Done("calculateSavings") /\ call.x.t = "dec" /\ call.y.t = "dec" =>
    LET e == call.x.n * 10 ^ (2 - call.x.d)
        b == call.y.n * 10 ^ (2 - call.y.d)
    IN /\ result # Null
       /\ result.savedKg = Dec(b - e, 2)
       /\ result.percentage =
            IF b > 0 THEN Dec(RoundHalfAway((b - e) * 10000, b), 2) ELSE Null

\* C10: calculateCarbonCredits returns null for every input that is not finite or is
\* negative, and otherwise emissionKg / kgPerCredit rounded to 4 decimal places
\* (0 gives 0, kgPerCredit gives 1, 51.60 gives 0.0516).
C10_Credits ==
  Done("calculateCarbonCredits") =>
    IF FiniteNonNegative(call.x)
    THEN result = Dec(RoundHalfAway(call.x.n * 10 ^ (4 - call.x.d), KG_PER_CREDIT), 4)
    ELSE result = Null

\* C11 as stated: for every finite distance d >= 0 (0 and distances whose car emission
\* rounds to 0.00 included) the bicycle has emission 0, its savings against the car
\* emission for d have savedKg equal to the car emission and percentage 100, and its
\* credit quantity is 0.
C11_BicycleSavesAll ==
  Done("calculateEmission") /\ call.y = "bicycle" /\ FiniteNonNegative(call.x) =>
    LET carEmission == calculateEmission(Num(call.x), "car")
        savings     == calculateSavings(result, carEmission)
    IN /\ result = Zero
       /\ savings # Null
       /\ savings.savedKg = carEmission
       /\ savings.percentage = FromInt(100)
       /\ calculateCarbonCredits(result) = Zero

\* C11, amended: for every finite distance d >= 0 the bicycle has emission 0, its
\* savings against the car emission for d have savedKg equal to the car emission and
\* percentage 100 when the car emission is greater than 0, percentage null when the car
\* emission is 0.00, and its credit quantity is 0.
C11_BicycleSavesAllOfPositive ==
  Done("calculateEmission") /\ call.y = "bicycle" /\ FiniteNonNegative(call.x) =>
    LET carEmission == calculateEmission(Num(call.x), "car")
        savings     == calculateSavings(result, carEmission)
    IN /\ result = Zero
       /\ savings # Null
       /\ savings.savedKg = carEmission
       /\ savings.percentage = IF IsPositive(carEmission) THEN FromInt(100) ELSE Null
       /\ calculateCarbonCredits(result) = Zero

\* calculateEmission(0.041, "bicycle") has returned 0; the car emission for 0.041 km
\* rounds to 0.00 and the savings against it have no percentage
C11_TinyDistanceDone ==
  /\ Done("calculateEmission")
  /\ call.y = "bicycle"
  /\ call.x = DecLit(41, 3)
  /\ result = Zero
  /\ calculateSavings(result, calculateEmission(Num(call.x), "car")) =
       [savedKg |-> Zero, percentage |-> Null]

\* the name with white space around it: " " TAB name NBSP LF
Padded(str) == <<32, 9>> \o str \o <<160, 10>>

\* the name in capitals (Basic Latin and Latin-1 letters)
Capitals(str) ==
  [i \in DOMAIN str |->
     IF str[i] \in 97 .. 122 \/ (str[i] \in 224 .. 254 /\ str[i] # 247)
     THEN str[i] - 32 ELSE str[i]]

\* spellings of a name that differ in surrounding white space and letter case
Spellings(str) ==
  {str, Padded(str), Capitals(str), toLowerCase(str), Padded(Capitals(str))}

\* C12: adding surrounding white space to either argument of findDistance, or changing
\* the letter case of either argument, does not change the result; a padded or re-cased
\* spelling of a known pair returns that pair's distance.
C12_SpellingInsensitive ==
  Done("findDistance") =>
    /\ \A a \in Spellings(call.x), b \in Spellings(call.y) : findDistance(a, b) = result
    /\ \A i \in DOMAIN RouteTable :
         /\ call.x \in Spellings(RouteTable[i].origin)
         /\ call.y \in Spellings(RouteTable[i].destination)
         => result = FromInt(RouteTable[i].distanceKm)

\* findDistance("SAO PAULO, SP", "rio de janeiro, rj") has returned the 430 km of the
\* first record
C12_RecasedLookupDone ==
  /\ Done("findDistance")
  /\ call.x = Capitals(RouteTable[1].origin)
  /\ call.y = toLowerCase(RouteTable[1].destination)
  /\ result = FromInt(RouteTable[1].distanceKm)

\* the names that occur as origin or destination of a record of the table
NamesOf(table) ==
  {table[i].origin : i \in DOMAIN table} \cup {table[i].destination : i \in DOMAIN table}

\* C13: getAllCities returns exactly the names that occur as origin or destination of
\* some record, each once (names that differ only in case are kept apart), in sorted
\* order, and does not modify the route table.
C13_CitiesDistinctSorted ==
  /\ [](Done("getAllCities") =>
          /\ {result[i] : i \in DOMAIN result} = NamesOf(routes)
          /\ Len(result) = Cardinality(NamesOf(routes))
          /\ \A i, j \in DOMAIN result : i < j => localeCompare(result[i], result[j]) < 0)
  /\ [][call.op = "getAllCities" /\ pc = "call" /\ pc' = "done" => routes' = routes]_vars

\* getAllCities has returned the names of a table that holds "sao paulo, sp" beside
\* "Sao Paulo, SP": the list keeps both, the lower-case one first, and has
\* "Belem, PA" before "Belo Horizonte, MG"
C13_CaseVariantsDone ==
  /\ Done("getAllCities")
  /\ \E i \in DOMAIN result :
       /\ i < Len(result)
       /\ result[i] = toLowerCase(RouteTable[1].origin)
       /\ result[i + 1] = RouteTable[1].origin
  /\ \E i \in DOMAIN result :
       /\ i < Len(result)
       /\ result[i] = <<66, 101, 108, 233, 109, 44, 32, 80, 65>>
       /\ result[i + 1] = RouteTable[6].origin

\* the indexes of the records that match the pair in either direction
MatchingRecords(a, b) == {i \in DOMAIN routes : RecordMatches(routes[i], a, b)}

\* C14: when several records of the table match the requested pair, findDistance
\* returns the distance of the matching record with the smallest index, for both
\* argument orders.
C14_FirstMatchWins ==
  Done("findDistance") /\ MatchingRecords(call.x, call.y) # {} =>
    LET first == CHOOSE i \in MatchingRecords(call.x, call.y) :
                   \A j \in MatchingRecords(call.x, call.y) : i <= j
    IN /\ result = FromInt(routes[first].distanceKm)
       /\ findDistance(call.y, call.x) = result

\* findDistance has returned the 111 km of a record put in front of the table, which
\* holds the same pair twice more
C14_DuplicateInFrontDone ==
  /\ Done("findDistance")
  /\ Cardinality(MatchingRecords(call.x, call.y)) >= 3
  /\ routes[1].distanceKm = 111
  /\ result = FromInt(111)
\* C15: whenever the submit button is disabled, its stored original text is the
\* button's own content and not the spinner markup; a timer that fires runs
\* hideLoading, after a calculation and after an exception alike, so that the button
\* is enabled and shows its content again; once no timer is pending the button is
\* enabled and shows its content; and a button that is disabled is enabled again
\* later on.
C15_LoadingProtocol ==
  /\ [](button.disabled => button.originalText = <<ButtonContent>>)
  /\ [](timers = <<>> => ~button.disabled /\ button.innerHTML = ButtonContent)
  /\ [][Len(timers') < Len(timers) =>
          /\ ~button'.disabled
          /\ button'.innerHTML = ButtonContent
          /\ button'.originalText = <<>>]_vars
  /\ (button.disabled ~> ~button.disabled)

\* the form has been submitted a second time while the button was showing the spinner
C15_SubmittedWhileLoadingDone ==
  /\ Len(timers) = 2
  /\ button.disabled
  /\ button.innerHTML = SpinnerMarkup
  /\ timers[1].selectedTransport = "truck"
  /\ timers[2].selectedTransport = "bus"

\* the form does not pass the validation: a name is empty once trimmed, the distance
\* is not a number or not above 0, or no transport is selected
InvalidForm ==
  \/ Blank(form.origin)
  \/ Blank(form.destination)
  \/ ~IsPositive(parseFloat(form.distance))
  \/ form.transport = <<>>

\* C16: a submit of a form that fails the validation leaves the button, the three
\* sections (visibility and content) and the pending timers as they were.
C16_InvalidSubmitNoEffect ==
  [][Submit /\ InvalidForm => UNCHANGED <<button, sections, timers>>]_vars

\* a form with names, a transport and the distance -5 has been submitted and refused
C16_RefusedDistanceDone ==
  /\ alert = "Por favor, informe uma distância válida maior que 0 km."
  /\ form.distance = <<45, 53>>
  /\ form.transport # <<>>
  /\ timers = <<>>
  /\ ~button.disabled

\* the text of the distance of the first record that matches the pair, "" when no
\* record matches
DistanceText(a, b) ==
  IF MatchingRecords(a, b) = {} THEN <<>>
  ELSE DigitsOf(routes[CHOOSE i \in MatchingRecords(a, b) :
                          \A j \in MatchingRecords(a, b) : i <= j].distanceKm)

\* C17: while the manual-distance checkbox is checked, a change of the origin or of
\* the destination leaves the distance and its read-only flag as they were; and
\* whenever the checkbox is unchecked, the distance is read-only and holds the
\* distance of the route from the origin to the destination, or nothing when the
\* table holds no such route.
C17_AutofillUnlessManual ==
  /\ [](~form.manual =>
          /\ form.readOnly
          /\ form.distance = DistanceText(form.origin, form.destination)
          /\ (findDistance(form.origin, form.destination) = Null
                <=> form.distance = <<>>))
  /\ [][/\ form.manual /\ form'.manual
        /\ form'.origin # form.origin \/ form'.destination # form.destination
        => form'.distance = form.distance /\ form'.readOnly = form.readOnly]_vars

\* in manual mode the typed 12.5 stands in the distance of a route of 430 km
C17_TypedDistanceKept ==
  /\ form.manual
  /\ ~form.readOnly
  /\ form.distance = <<49, 50, 46, 53>>
  /\ findDistance(form.origin, form.destination) = FromInt(430)

\* C18: with the listeners of setupDistanceAutofill registered twice, a change event
\* of the origin, of the destination or of the checkbox leaves the distance, the
\* read-only flag and the helper as one run of the listener leaves them, and so does
\* the second run of setupDistanceAutofill at start-up.
C18_SecondListenerChangesNothing ==
  /\ [](InitialForm = setupDistanceAutofill(DocumentForm))
  /\ [][/\ form'.origin # form.origin =>
             form' = tryAutofill([form EXCEPT !.origin = form'.origin])
        /\ form'.destination # form.destination =>
             form' = tryAutofill([form EXCEPT !.destination = form'.destination])
        /\ form'.manual # form.manual =>
             form' = onManualChange([form EXCEPT !.manual = form'.manual])]_vars

\* both listeners of the checkbox have run for a click that checked it, and both
\* listeners of the origin for a route that the table holds
C18_ListenersRanTwiceDone ==
  /\ form.manual
  /\ ~form.readOnly
  /\ form.helper.message = "Modo manual ativado. Insira a distância em km."
  /\ form.distance = <<52, 51, 48>>
====
